---- MODULE Spec2Model ----
(***************************************************************************)
(* Model of ClashConfigGenerator (src/src/generate_clash_config.py): the   *)
(* composition of the proxy-group list from the INI configuration and the  *)
(* rules document.                                                         *)
(*                                                                         *)
(* Representation.                                                         *)
(*  - A Python list is a sequence; a dict iterated in insertion order is a *)
(*    sequence of entries; a dict only looked up by key is a function.     *)
(*  - An Optional value is a sequence of length 0 (None) or 1.             *)
(*  - A comma- or pipe-separated configuration string is the sequence of   *)
(*    its stripped pieces, and the empty string is <<>> (Split gives it    *)
(*    the [""] that str.split returns).                                    *)
(*  - PyNone stands for Python's None where it can be an element of a list *)
(*    of strings; no configuration string equals it.                       *)
(*  - Emoji and the Chinese default names are written as ASCII stand-ins.  *)
(***************************************************************************)
EXTENDS Integers, Sequences, FiniteSets, TLC

VARIABLES config, rules_config, pc, providers, regions, relay_groups,
          custom_groups, manual_select_group, region_groups, main_groups,
          all_groups, returned, saved, exit_status

vars == <<config, rules_config, pc, providers, regions, relay_groups,
          custom_groups, manual_select_group, region_groups, main_groups,
          all_groups, returned, saved, exit_status>>

(* ------------------------------ bounds --------------------------------- *)
MaxProviders == 2
MaxRegions == 2
MaxCustom == 2
MaxMain == 2

(* --------------------------- generic helpers --------------------------- *)
Range(s) == {s[i] : i \in DOMAIN s}

EmptyMap == [x \in {} |-> x]

PyNone == "<None>"

\* Python truthiness of an Optional[str]
Truthy(s) == s # PyNone /\ s # ""

\* str.split(sep) of a configuration string given as its pieces
Split(v) == IF v = <<>> THEN <<"">> ELSE v

\* sep.join(seq)
RECURSIVE Join(_, _)
Join(seq, sep) ==
    IF seq = <<>> THEN ""
    ELSE IF Len(seq) = 1 THEN seq[1]
    ELSE seq[1] \o sep \o Join(Tail(seq), sep)

\* list.extend over a sequence of lists
RECURSIVE Flatten(_)
Flatten(ss) == IF ss = <<>> THEN <<>> ELSE ss[1] \o Flatten(Tail(ss))

\* str.upper / str.lower on the strings of the model's alphabet
Upper(s) ==
    CASE s = "a" -> "A"
      [] s = "b" -> "B"
      [] s = "c" -> "C"
      [] OTHER -> s

Lower(s) ==
    CASE s = "MANUAL" -> "manual"
      [] s = "Manual" -> "manual"
      [] s = "HK" -> "hk"
      [] s = "JP" -> "jp"
      [] s = "US" -> "us"
      [] OTHER -> s

(* ------------------------- configuration access ------------------------ *)
has_section(name) == name \in DOMAIN config

\* RawConfigParser.get(section, key, fallback=...)
config_get(section, key, fallback) ==
    IF has_section(section) /\ key \in DOMAIN config[section]
    THEN config[section][key]
    ELSE fallback

\* RawConfigParser.getboolean(section, key, fallback=...)
config_getboolean(section, key, fallback) ==
    IF has_section(section) /\ key \in DOMAIN config[section]
    THEN config[section][key] \in {"1", "yes", "true", "on"}
    ELSE fallback

\* the section as a dict, empty when the section is absent
section_items(name) == IF has_section(name) THEN config[name] ELSE EmptyMap

TestUrlFallback == "http://connectivitycheck.gstatic.com/generate_204"

test_url == config_get("clash", "test_url", TestUrlFallback)

use_merged_region_groups ==
    config_getboolean("clash", "use_merged_region_groups", FALSE)

\* get_proxy_providers: the provider names, upper-cased, in file order
get_proxy_providers ==
    IF has_section("proxy_providers")
    THEN [i \in DOMAIN config["proxy_providers"] |->
            Upper(config["proxy_providers"][i])]
    ELSE <<>>

\* get_regions: entries with an emoji and at least one keyword
get_regions ==
    IF has_section("regions")
    THEN LET ok == SelectSeq(config["regions"], LAMBDA e : Len(e.parts) >= 2)
         IN  [i \in DOMAIN ok |->
                [name |-> ok[i].name, emoji |-> ok[i].parts[1],
                 keywords |-> Tail(ok[i].parts)]]
    ELSE <<>>

\* get_exclude_keywords
get_exclude_keywords ==
    LET keywords_str == config_get("filter", "exclude_keywords", <<>>)
    IN  IF has_section("filter") /\ keywords_str # <<>>
        THEN Split(keywords_str) ELSE <<>>

(* --------------------------- group records ----------------------------- *)
\* the type-specific parameters of a region or custom group (lines 134-143)
type_params(group_type) ==
    CASE group_type = "fallback" -> [timeout |-> 5000, interval |-> 600]
      [] group_type = "url-test" -> [tolerance |-> 500, interval |-> 600]
      [] group_type = "load-balance" ->
            [strategy |-> "consistent-hashing", interval |-> 600]
      [] OTHER -> EmptyMap

create_proxy_group_config(name, group_type, use_providers, filter_regex, url) ==
    [name |-> name, type |-> group_type, filter |-> filter_regex, url |-> url]
      @@ type_params(group_type)
      @@ (IF use_providers # <<>> THEN [use |-> use_providers] ELSE EmptyMap)

\* create_custom_proxy_group_config that leaves the url field out
create_custom_proxy_group_config_NoUrl(name, group_type, filter_regex, url) ==
    [name |-> name, type |-> group_type, filter |-> filter_regex]
        @@ type_params(group_type)

create_custom_proxy_group_config(name, group_type, filter_regex, url) ==
    [name |-> name, type |-> group_type, filter |-> filter_regex, url |-> url]
      @@ type_params(group_type)

\* the filter of a per-provider region group (lines 192-203):
\* "|".join(keywords), wrapped in the negative lookahead when there are
\* exclusion keywords
filter_regex_of(keywords, exclude_keywords) ==
    IF exclude_keywords # <<>>
    THEN "(?!.*(" \o Join(exclude_keywords, "|") \o ")).*("
            \o Join(keywords, "|") \o ")"
    ELSE Join(keywords, "|")

(* ------------------------ region restriction --------------------------- *)
\* _get_region_providers_config: region -> the configured providers listed
\* for it, in provider order; a region none of whose listed providers is
\* configured gets no entry
get_region_providers_config(provs) ==
    LET rp == section_items("region_providers")
        listed(r) == Range(Split(rp[r]))
        keys == {r \in DOMAIN rp : \E i \in DOMAIN provs : provs[i] \in listed(r)}
    IN  [r \in keys |-> SelectSeq(provs, LAMBDA p : p \in listed(r))]

\* the (provider, region) pairs in the order of the nested loops
\* "for provider ... for region ..."
provider_region_pairs(provs, regs) ==
    [k \in 1..(Len(provs) * Len(regs)) |->
        [provider |-> provs[((k - 1) \div Len(regs)) + 1],
         region |-> regs[((k - 1) % Len(regs)) + 1]]]

(* ------------------------ region group factory ------------------------- *)
generate_auto_groups(provs, regs) ==
    LET exclude_keywords == get_exclude_keywords
        default_type == config_get("clash", "default_group_type", "url-test")
        region_providers_map == get_region_providers_config(provs)
        kept == SelectSeq(provider_region_pairs(provs, regs), LAMBDA pr :
                  /\ ~(/\ pr.region.name \in DOMAIN region_providers_map
                       /\ pr.provider \notin
                            Range(region_providers_map[pr.region.name]))
                  /\ pr.region.keywords # <<>>)
    IN  [i \in DOMAIN kept |->
            create_proxy_group_config(
                kept[i].region.emoji \o kept[i].region.name \o "_"
                    \o kept[i].provider,
                config_get("clash", "group_type_" \o kept[i].region.name,
                           default_type),
                <<kept[i].provider>>,
                filter_regex_of(kept[i].region.keywords, exclude_keywords),
                test_url)]

\* the filter of a merged region group (lines 278-283)
merged_filter_regex(keywords, exclude_keywords) ==
    IF exclude_keywords # <<>>
    THEN "(?!.*(" \o Join(exclude_keywords, "|") \o ")).*("
            \o Join(keywords, "|") \o ")"
    ELSE Join(keywords, "|")

\* the providers a merged region group uses: the listed ones that are
\* configured, in listed order, or all providers without a restriction
merged_selected_providers(provs, region_name) ==
    LET rp == section_items("region_providers")
    IN  IF region_name \in DOMAIN rp
        THEN SelectSeq(Split(rp[region_name]), LAMBDA p : p \in Range(provs))
        ELSE provs

generate_merged_region_groups(provs, regs) ==
    LET exclude_keywords == get_exclude_keywords
        default_type == config_get("clash", "default_group_type", "fallback")
        kept == SelectSeq(regs, LAMBDA r :
                  merged_selected_providers(provs, r.name) # <<>>)
    IN  [i \in DOMAIN kept |->
            create_proxy_group_config(
                kept[i].emoji \o kept[i].name,
                config_get("clash", "group_type_" \o kept[i].name,
                           default_type),
                merged_selected_providers(provs, kept[i].name),
                merged_filter_regex(kept[i].keywords, exclude_keywords),
                test_url)]

\* _get_region_group_names
get_region_group_names(provs, regs, use_merged_groups) ==
    IF use_merged_groups
    THEN [i \in DOMAIN regs |-> regs[i].emoji \o regs[i].name]
    ELSE LET region_providers_map == get_region_providers_config(provs)
             kept == SelectSeq(provider_region_pairs(provs, regs), LAMBDA pr :
                       \/ /\ pr.region.name \in DOMAIN region_providers_map
                          /\ pr.provider \in
                               Range(region_providers_map[pr.region.name])
                       \/ pr.region.name \notin DOMAIN region_providers_map)
         IN  [i \in DOMAIN kept |->
                kept[i].region.emoji \o kept[i].region.name \o "_"
                    \o kept[i].provider]


(* ------------------------ custom group factory ------------------------- *)
\* the fields of one spec after config_str.split(",")
spec_providers_str(parts) == parts[3]
spec_regions_str(parts) == parts[4]
spec_target_groups_str(parts) == IF Len(parts) > 4 THEN parts[5] ELSE <<>>

\* the providers of the spec that are configured (lines 360-364)
spec_selected_providers(parts, provs) ==
    SelectSeq(Split(spec_providers_str(parts)), LAMBDA p : p \in Range(provs))

\* the keywords of the spec's regions, in the order the regions are listed
\* (lines 379-384)
spec_all_keywords(parts, regs) ==
    LET selected_regions == Split(spec_regions_str(parts))
        keywords_of(region_name) ==
            LET hit == SelectSeq(regs, LAMBDA r : r.name = region_name)
            IN  IF hit = <<>> THEN <<>> ELSE hit[1].keywords
    IN  Flatten([i \in DOMAIN selected_regions |->
                    keywords_of(selected_regions[i])])

\* spec_is_emitted that keeps a spec whose providers are all unknown
spec_is_emitted_NoProviderCheck(parts, provs, regs) ==
    /\ Len(parts) >= 4
    /\ spec_regions_str(parts) # <<>>
    /\ spec_all_keywords(parts, regs) # <<>>

\* whether the loop body reaches custom_groups.append for this spec
spec_is_emitted(parts, provs, regs) ==
    /\ Len(parts) >= 4
    /\ (spec_providers_str(parts) # <<>>
            => spec_selected_providers(parts, provs) # <<>>)
    /\ spec_regions_str(parts) # <<>>
    /\ spec_all_keywords(parts, regs) # <<>>

\* custom_filter_regex that leaves the exclusion keywords out
custom_filter_regex_NoExclusion(all_keywords, exclude_keywords) ==
    Join(all_keywords, "|")

\* the filter of a custom group (lines 392-396)
custom_filter_regex(all_keywords, exclude_keywords) ==
    IF exclude_keywords # <<>>
    THEN "(?!.*(" \o Join(exclude_keywords, "|") \o ")).*("
            \o Join(all_keywords, "|") \o ")"
    ELSE Join(all_keywords, "|")

\* the loop of lines 343-438 over the entries of [custom_groups]
generate_custom_groups_from(entries, provs, regs) ==
    LET exclude_keywords == get_exclude_keywords
        kept == SelectSeq(entries, LAMBDA e :
                    spec_is_emitted(e.parts, provs, regs))
    IN  [i \in DOMAIN kept |->
            LET parts == kept[i].parts
            IN  create_custom_proxy_group_config(
                    parts[1] \o kept[i].name,
                    parts[2],
                    custom_filter_regex(spec_all_keywords(parts, regs),
                                        exclude_keywords),
                    test_url)
                @@ [use |-> IF spec_providers_str(parts) # <<>>
                            THEN spec_selected_providers(parts, provs)
                            ELSE provs,
                    _target_groups |->
                        IF spec_target_groups_str(parts) # <<>>
                        THEN Split(spec_target_groups_str(parts))
                        ELSE <<>>]]

generate_custom_groups(provs, regs) ==
    IF ~has_section("custom_groups") THEN <<>>
    ELSE generate_custom_groups_from(config["custom_groups"], provs, regs)

(* ------------------------ manual-select factory ------------------------ *)
ManualNameFallback == "manual-select"
ManualEmojiFallback == "[hand]"

generate_manual_select_group(provs) ==
    IF ~has_section("manual_select") THEN <<>>
    ELSE IF ~config_getboolean("manual_select", "enabled", FALSE) THEN <<>>
    ELSE << [name |-> config_get("manual_select", "emoji", ManualEmojiFallback)
                        \o config_get("manual_select", "name",
                                      ManualNameFallback),
             type |-> "select",
             use |-> provs] >>

(* --------------------------- relay factory ----------------------------- *)
RelayNameFallback == "unified-proxy"

\* proxy_defaults: the non-empty entries of [proxy_group_defaults]
proxy_defaults ==
    LET d == section_items("proxy_group_defaults")
    IN  [g \in {k \in DOMAIN d : d[k] # ""} |-> d[g]]

\* the aggregated member names (lines 543-565)
relay_proxies(provs, regs) ==
    LET included_regions_str == config_get("relay_groups", "regions", <<>>)
        included_regions ==
            IF included_regions_str # <<>>
            THEN Range(Split(included_regions_str))
            ELSE {regs[i].name : i \in DOMAIN regs}
    IN  IF use_merged_region_groups
        THEN LET kept == SelectSeq(regs, LAMBDA r : r.name \in included_regions)
             IN  [i \in DOMAIN kept |-> kept[i].emoji \o kept[i].name]
        ELSE LET region_providers_map == get_region_providers_config(provs)
                 kept == SelectSeq(provider_region_pairs(provs, regs),
                    LAMBDA pr :
                       \/ /\ pr.region.name \in DOMAIN region_providers_map
                          /\ pr.provider \in
                               Range(region_providers_map[pr.region.name])
                          /\ pr.region.name \in included_regions
                       \/ /\ pr.region.name \notin DOMAIN region_providers_map
                          /\ pr.region.name \in included_regions)
             IN  [i \in DOMAIN kept |->
                    kept[i].region.emoji \o kept[i].region.name \o "_"
                        \o kept[i].provider]

\* list.remove(x): the list without the first occurrence of x
remove_first(seq, x) ==
    LET k == CHOOSE i \in DOMAIN seq :
                seq[i] = x /\ \A j \in 1..(i - 1) : seq[j] # x
    IN  SubSeq(seq, 1, k - 1) \o SubSeq(seq, k + 1, Len(seq))

\* relay_apply_default with a default node that is not among the members
\* put in front of them
relay_apply_default_Prepend(proxies, relay_name) ==
    IF relay_name \in DOMAIN proxy_defaults
    THEN LET default_node == proxy_defaults[relay_name]
         IN  IF default_node \in Range(proxies)
             THEN <<default_node>> \o remove_first(proxies, default_node)
             ELSE <<default_node>> \o proxies
    ELSE proxies

\* the default node of the relay group moved to the front when it is one of
\* the members; the list is left as it is otherwise (lines 587-596)
relay_apply_default(proxies, relay_name) ==
    IF relay_name \in DOMAIN proxy_defaults
    THEN LET default_node == proxy_defaults[relay_name]
         IN  IF default_node \in Range(proxies)
             THEN <<default_node>> \o remove_first(proxies, default_node)
             ELSE proxies
    ELSE proxies

\* the type-specific parameters of the relay group (lines 598-607)
\* relay_type_params with the tuning of the region groups
relay_type_params_AsRegion(relay_type) == type_params(relay_type)

relay_type_params(relay_type) ==
    CASE relay_type = "fallback" -> [timeout |-> 5000, interval |-> 600]
      [] relay_type = "url-test" -> [tolerance |-> 100, interval |-> 300]
      [] relay_type = "load-balance" ->
            [strategy |-> "consistent-hashing", interval |-> 600]
      [] OTHER -> EmptyMap

generate_relay_group(provs, regs) ==
    IF ~has_section("relay_groups") THEN <<>>
    ELSE
    LET relay_name == config_get("relay_groups", "name", RelayNameFallback)
        relay_type == config_get("relay_groups", "type", "fallback")
        proxies == relay_proxies(provs, regs)
    IN  IF proxies = <<>> THEN <<>>
        ELSE << [name |-> relay_name, type |-> relay_type,
                 proxies |-> relay_apply_default(proxies, relay_name),
                 url |-> test_url]
                @@ relay_type_params(relay_type) >>


(* ------------------------- main group assembler ------------------------ *)
\* _should_include_relay_group
should_include_relay_group(group_name) ==
    IF has_section("relay_groups_targets")
    THEN config_get("relay_groups_targets", group_name, "") # ""
    ELSE TRUE

\* relay_group_name of generate_main_proxy_groups (lines 663-666)
main_relay_group_name ==
    IF has_section("relay_groups")
    THEN config_get("relay_groups", "name", RelayNameFallback)
    ELSE PyNone

\* main_region_members without the test that keeps the default node out of
\* the region members
main_region_members_KeepPin(group_name, default_node, regs, region_group_names) ==
    LET custom_region_groups == section_items("main_proxy_region_groups")
    IN  IF group_name \in DOMAIN custom_region_groups
        THEN LET region_list == Split(custom_region_groups[group_name])
             IN  IF Len(region_list) = 1 /\ Lower(region_list[1]) = "manual"
                 THEN <<>>
                 ELSE LET kept == SelectSeq(regs, LAMBDA r :
                                    r.name \in Range(region_list))
                      IN  [i \in DOMAIN kept |-> kept[i].emoji \o kept[i].name]
        ELSE region_group_names

\* the region members of one main group (lines 685-705)
main_region_members(group_name, default_node, regs, region_group_names) ==
    LET custom_region_groups == section_items("main_proxy_region_groups")
    IN  IF group_name \in DOMAIN custom_region_groups
        THEN LET region_list == Split(custom_region_groups[group_name])
             IN  IF Len(region_list) = 1 /\ Lower(region_list[1]) = "manual"
                 THEN <<>>
                 ELSE LET kept == SelectSeq(regs, LAMBDA r :
                                    /\ r.name \in Range(region_list)
                                    /\ r.emoji \o r.name # default_node)
                      IN  [i \in DOMAIN kept |-> kept[i].emoji \o kept[i].name]
        ELSE SelectSeq(region_group_names, LAMBDA n : n # default_node)

\* the custom-group members of one main group (lines 707-716)
main_custom_members(group_name, default_node, customs) ==
    LET kept == SelectSeq(customs, LAMBDA c :
                    /\ (c._target_groups = <<>>
                            \/ group_name \in Range(c._target_groups))
                    /\ c.name # default_node)
    IN  [i \in DOMAIN kept |-> kept[i].name]

\* the member list of one main group (lines 677-733)
main_group_proxies(group_name, regs, region_group_names, customs, manual) ==
    LET default_node ==
            IF group_name \in DOMAIN proxy_defaults
            THEN proxy_defaults[group_name] ELSE PyNone
        relay_group_name == main_relay_group_name
        p1 == IF Truthy(default_node) THEN <<default_node>> ELSE <<>>
        p2 == p1 \o main_region_members(group_name, default_node, regs,
                                        region_group_names)
        p3 == p2 \o main_custom_members(group_name, default_node, customs)
        p4 == IF default_node = relay_group_name
                    /\ relay_group_name \notin Range(p3)
              THEN <<relay_group_name>> \o p3 ELSE p3
        p5 == IF /\ Truthy(relay_group_name)
                 /\ relay_group_name # default_node
                 /\ relay_group_name \notin Range(p4)
                 /\ should_include_relay_group(group_name)
              THEN Append(p4, relay_group_name) ELSE p4
        p6 == IF /\ manual # <<>>
                 /\ manual[1].name # default_node
                 /\ manual[1].name \notin Range(p5)
              THEN Append(p5, manual[1].name) ELSE p5
    IN  IF "DIRECT" # default_node /\ "DIRECT" \notin Range(p6)
        THEN Append(p6, "DIRECT") ELSE p6

generate_main_proxy_groups(provs, regs, customs, manual) ==
    LET region_group_names ==
            get_region_group_names(provs, regs, use_merged_region_groups)
        main_groups_config == rules_config.proxy_groups.main_groups
        special_groups_config == rules_config.proxy_groups.special_groups
    IN  [i \in DOMAIN main_groups_config |->
            [name |-> main_groups_config[i].name,
             type |-> main_groups_config[i].type,
             proxies |-> main_group_proxies(main_groups_config[i].name, regs,
                            region_group_names, customs, manual)]]
        \o
        [i \in DOMAIN special_groups_config |->
            [name |-> special_groups_config[i].name,
             type |-> special_groups_config[i].type,
             proxies |-> special_groups_config[i].proxies]]

(* -------------------------- composition driver ------------------------- *)
\* a custom group without the keys that start with "_" (line 815)
strip_internal(custom_group) ==
    [k \in DOMAIN custom_group \ {"_target_groups"} |-> custom_group[k]]

\* concat_all_groups with the region groups put before the main groups
concat_all_groups_RegionsFirst(relays, mains, region_grps, customs, manual) ==
    relays \o region_grps \o mains
        \o [i \in DOMAIN customs |-> strip_internal(customs[i])]
        \o manual

\* the concatenation of lines 808-819
concat_all_groups(relays, mains, region_grps, customs, manual) ==
    relays \o mains \o region_grps
        \o [i \in DOMAIN customs |-> strip_internal(customs[i])]
        \o manual


(* ------------------------- configurations checked ---------------------- *)
ProviderPool == <<"a", "B", "c">>

RegionPool ==
    << [name |-> "HK", parts |-> <<"[hk]", "HK", "Hong Kong">>],
       [name |-> "JP", parts |-> <<"[jp]", "JP">>],
       [name |-> "US", parts |-> <<"[us]", "US", "United States">>] >>

\* [custom_groups] entries: emoji, type, providers, regions, target groups
CustomPool ==
    << [name |-> "Media",
        parts |-> <<"[m]", "select", <<"A">>, <<"HK", "JP">>, <<"Proxy">>>>],
       [name |-> "HK",
        parts |-> <<"[hk]", "url-test", <<>>, <<"HK">>>>],
       [name |-> "Short",
        parts |-> <<"[s]", "select", <<"A">>>>],
       [name |-> "Ghost",
        parts |-> <<"[g]", "fallback", <<"Z">>, <<"HK">>, <<>>>>] >>

MainPool ==
    << [name |-> "Proxy", type |-> "select"],
       [name |-> "Stream", type |-> "select"],
       [name |-> "Game", type |-> "select"] >>

SpecialPool ==
    << [name |-> "Final", type |-> "select",
        proxies |-> <<"Proxy", "DIRECT">>] >>

Min(a, b) == IF a < b THEN a ELSE b

Prefix(pool, n) == SubSeq(pool, 1, Min(n, Len(pool)))

\* the subsequences of pool of length at most k, as sequences
SubSeqsUpTo(pool, k) ==
    LET idx == {s \in UNION {[1..m -> DOMAIN pool] : m \in 0..Min(k, Len(pool))} :
                    \A i, j \in DOMAIN s : i < j => s[i] < s[j]}
    IN  {[i \in DOMAIN s |-> pool[s[i]]] : s \in idx}

Optional(name, bodies) == {EmptyMap} \cup {name :> b : b \in bodies}

ClashSections ==
    {"clash" :> ("use_merged_region_groups" :> m) : m \in {"true", "false"}}

RegionProviderSections ==
    Optional("region_providers",
             {"HK" :> l : l \in {<<"A">>, <<"Z">>, <<"A", "A">>}})

RelaySections ==
    Optional("relay_groups",
             {"name" :> "Relay",
              [name |-> "Relay", regions |-> <<"JP">>]})

RelayPinSections ==
    Optional("proxy_group_defaults",
             {"Relay" :> t : t \in {"[jp]JP", "[jp]JP_A", "Node"}})

MainPinSections ==
    Optional("proxy_group_defaults",
             {"Proxy" :> t : t \in {"[hk]HK", "[hk]HK_A", "[m]Media", "Relay",
                                    "[hand]manual-select", "DIRECT", "Node"}})

MainRegionSections ==
    Optional("main_proxy_region_groups",
             {"Proxy" :> l : l \in {<<"HK">>, <<"Manual">>}})

RelayTargetSections ==
    Optional("relay_groups_targets", {"Proxy" :> "1"})

ManualSections ==
    Optional("manual_select", {"enabled" :> "true"})

CustomSections ==
    {IF c = <<>> THEN EmptyMap ELSE "custom_groups" :> c :
        c \in SubSeqsUpTo(CustomPool, MaxCustom)}

InputSections(np, nr) ==
    ("proxy_providers" :> Prefix(ProviderPool, np))
        @@ ("regions" :> Prefix(RegionPool, nr))

Rules(nm, specials) ==
    [proxy_groups |->
        [main_groups |-> Prefix(MainPool, nm), special_groups |-> specials]]

\* configurations that vary the providers, the regions, the region
\* restriction and the relay group
RegionProfile ==
    /\ \E np \in 0..MaxProviders, nr \in 0..MaxRegions,
          c \in ClashSections, rp \in RegionProviderSections,
          rl \in RelaySections, pin \in RelayPinSections,
          mr \in MainRegionSections :
          config = InputSections(np, nr) @@ c @@ rp @@ rl @@ pin @@ mr
    /\ rules_config = Rules(1, <<>>)

\* configurations that vary what the main groups are assembled from
AssemblyProfile ==
    /\ \E c \in ClashSections, pin \in MainPinSections,
          cu \in CustomSections, ma \in ManualSections,
          rl \in Optional("relay_groups", {"name" :> "Relay"}),
          rt \in RelayTargetSections,
          mr \in Optional("main_proxy_region_groups", {"Proxy" :> <<"HK">>}) :
          config = InputSections(MaxProviders, MaxRegions)
                        @@ c @@ pin @@ cu @@ ma @@ rl @@ rt @@ mr
    /\ \E nm \in 1..MaxMain, sp \in {<<>>, SpecialPool} :
          rules_config = Rules(nm, sp)

\* [clash] sections that vary the group types of the region groups
TypedClashSections ==
    {"clash" :> (("use_merged_region_groups" :> m) @@ dt @@ ov) :
        m \in {"true", "false"},
        dt \in {EmptyMap} \cup {"default_group_type" :> t :
                                  t \in {"select", "load-balance", "smart"}},
        ov \in {EmptyMap, "group_type_HK" :> "url-test"}}

FilterSections ==
    Optional("filter",
             {"exclude_keywords" :> l :
                l \in {<<>>, <<"TEST">>, <<"TEST", "EXP">>}})

TypedRelaySections ==
    Optional("relay_groups",
             {"name" :> "Relay"}
                \cup {[name |-> "Relay", type |-> t] :
                        t \in {"url-test", "load-balance", "select"}})

\* one custom group over two regions listed against the order of [regions]
TypedCustomSections ==
    {"custom_groups" :>
        << [name |-> "Asia", parts |-> <<"[as]", t, <<>>, <<"JP", "HK">>>>] >> :
        t \in {"select", "url-test", "fallback", "load-balance"}}

\* [custom_groups] entries that are dropped, next to ones that are kept
DropPool ==
    << [name |-> "Asia",
        parts |-> <<"[as]", "select", <<"B", "Z">>, <<"JP", "XX", "HK">>,
                    <<"Stream">>>>],
       [name |-> "Short",
        parts |-> <<"[s]", "select", <<"A">>>>],
       [name |-> "Ghost",
        parts |-> <<"[g]", "fallback", <<"Z">>, <<"HK">>, <<>>>>],
       [name |-> "Nowhere",
        parts |-> <<"[n]", "select", <<"A">>, <<"XX">>, <<>>>>],
       [name |-> "NoRegion",
        parts |-> <<"[r]", "select", <<"A">>, <<>>, <<"Proxy">>>>],
       [name |-> "JP",
        parts |-> <<"[jp]", "select", <<>>, <<"JP">>, <<"Stream">>>>],
       [name |-> "Auto",
        parts |-> <<"[au]", "smart", <<>>, <<"HK">>>>] >>

\* configurations that vary the exclusion keywords and the group types
TuningProfile ==
    /\ \E c \in TypedClashSections, f \in FilterSections,
          rl \in TypedRelaySections, cu \in TypedCustomSections :
          config = InputSections(MaxProviders, MaxRegions)
                        @@ c @@ f @@ rl @@ cu
    /\ rules_config = Rules(1, <<>>)

\* configurations that vary the entries of [custom_groups]
CustomProfile ==
    /\ \E c \in ClashSections, f \in Optional("filter",
                                    {"exclude_keywords" :> <<"TEST">>}),
          cu \in SubSeqsUpTo(DropPool, MaxCustom) \ {<<>>} :
          config = InputSections(MaxProviders, MaxRegions)
                        @@ c @@ f @@ ("custom_groups" :> cu)
    /\ rules_config = Rules(MaxMain, <<>>)

Init ==
    /\ pc = "generate_config"
    /\ RegionProfile \/ AssemblyProfile \/ TuningProfile \/ CustomProfile
    /\ providers = <<>>
    /\ regions = <<>>
    /\ relay_groups = <<>>
    /\ custom_groups = <<>>
    /\ manual_select_group = <<>>
    /\ region_groups = <<>>
    /\ main_groups = <<>>
    /\ all_groups = <<>>
    /\ returned = <<>>
    /\ saved = <<>>
    /\ exit_status = <<>>

(* ------------------------------ run, main ------------------------------ *)
\* run_proceeds that goes on to save_config whatever generate_config returned
run_proceeds_Always(generated) == TRUE

\* run: whether 'if not config' lets the run go on to save_config
run_proceeds(generated) == DOMAIN generated # {}

\* main: sys.exit(0 if success else 1)
exit_code(success) == IF success THEN 0 ELSE 1

(* ------------------------------- actions ------------------------------- *)
\* generate_config up to the call of _generate_all_proxy_groups; without
\* providers it returns {} and no factory runs
GenerateConfig ==
    /\ pc = "generate_config"
    /\ providers' = get_proxy_providers
    /\ regions' = get_regions
    /\ pc' = IF get_proxy_providers = <<>> THEN "failed" ELSE "relay"
    /\ returned' = IF get_proxy_providers = <<>> THEN <<EmptyMap>> ELSE <<>>
    /\ UNCHANGED <<config, rules_config, relay_groups, custom_groups,
                   manual_select_group, region_groups, main_groups, all_groups,
                   saved, exit_status>>

GenerateRelayGroup ==
    /\ pc = "relay"
    /\ relay_groups' = generate_relay_group(providers, regions)
    /\ pc' = "custom"
    /\ UNCHANGED <<config, rules_config, providers, regions, custom_groups,
                   manual_select_group, region_groups, main_groups, all_groups,
                   returned, saved, exit_status>>

GenerateCustomGroups ==
    /\ pc = "custom"
    /\ custom_groups' = generate_custom_groups(providers, regions)
    /\ pc' = "manual"
    /\ UNCHANGED <<config, rules_config, providers, regions, relay_groups,
                   manual_select_group, region_groups, main_groups, all_groups,
                   returned, saved, exit_status>>

GenerateManualSelectGroup ==
    /\ pc = "manual"
    /\ manual_select_group' = generate_manual_select_group(providers)
    /\ pc' = "region"
    /\ UNCHANGED <<config, rules_config, providers, regions, relay_groups,
                   custom_groups, region_groups, main_groups, all_groups,
                   returned, saved, exit_status>>

GenerateMergedRegionGroups ==
    /\ pc = "region"
    /\ use_merged_region_groups
    /\ region_groups' = generate_merged_region_groups(providers, regions)
    /\ pc' = "main"
    /\ UNCHANGED <<config, rules_config, providers, regions, relay_groups,
                   custom_groups, manual_select_group, main_groups, all_groups,
                   returned, saved, exit_status>>

GenerateAutoGroups ==
    /\ pc = "region"
    /\ ~use_merged_region_groups
    /\ region_groups' = generate_auto_groups(providers, regions)
    /\ pc' = "main"
    /\ UNCHANGED <<config, rules_config, providers, regions, relay_groups,
                   custom_groups, manual_select_group, main_groups, all_groups,
                   returned, saved, exit_status>>

GenerateMainProxyGroups ==
    /\ pc = "main"
    /\ main_groups' = generate_main_proxy_groups(providers, regions,
                            custom_groups, manual_select_group)
    /\ pc' = "concat"
    /\ UNCHANGED <<config, rules_config, providers, regions, relay_groups,
                   custom_groups, manual_select_group, region_groups, all_groups,
                   returned, saved, exit_status>>

\* the concatenation that _generate_all_proxy_groups returns, and the
\* configuration generate_config returns with it (of its keys only
\* proxy-groups is kept: the others are copied from the configuration)
ConcatAllGroups ==
    /\ pc = "concat"
    /\ all_groups' = concat_all_groups(relay_groups, main_groups, region_groups,
                                       custom_groups, manual_select_group)
    /\ returned' = << "proxy-groups" :> all_groups' >>
    /\ pc' = "done"
    /\ UNCHANGED <<config, rules_config, providers, regions, relay_groups,
                   custom_groups, manual_select_group, region_groups, main_groups,
                   saved, exit_status>>

\* run: 'if not config: return False', then main's sys.exit(1)
RunReturnsFalse ==
    /\ pc \in {"done", "failed"}
    /\ ~run_proceeds(returned[1])
    /\ exit_status' = << exit_code(FALSE) >>
    /\ pc' = "exited"
    /\ UNCHANGED <<config, rules_config, providers, regions, relay_groups,
                   custom_groups, manual_select_group, region_groups, main_groups,
                   all_groups, returned, saved>>

\* save_config: writes the configuration and returns True, or catches the
\* exception of a failed write and returns False
SaveConfig ==
    /\ pc \in {"done", "failed"}
    /\ run_proceeds(returned[1])
    /\ \E written \in BOOLEAN :
          /\ saved' = IF written THEN returned ELSE <<>>
          /\ pc' = IF written THEN "saved" ELSE "save_failed"
    /\ UNCHANGED <<config, rules_config, providers, regions, relay_groups,
                   custom_groups, manual_select_group, region_groups, main_groups,
                   all_groups, returned, exit_status>>

\* run returns what save_config returned; main exits with 0 or 1
Exit ==
    /\ pc \in {"saved", "save_failed"}
    /\ exit_status' = << exit_code(pc = "saved") >>
    /\ pc' = "exited"
    /\ UNCHANGED <<config, rules_config, providers, regions, relay_groups,
                   custom_groups, manual_select_group, region_groups, main_groups,
                   all_groups, returned, saved>>

Next ==
    \/ GenerateConfig
    \/ GenerateRelayGroup
    \/ GenerateCustomGroups
    \/ GenerateManualSelectGroup
    \/ GenerateMergedRegionGroups
    \/ GenerateAutoGroups
    \/ GenerateMainProxyGroups
    \/ ConcatAllGroups
    \/ RunReturnsFalse
    \/ SaveConfig
    \/ Exit

Spec == Init /\ [][Next]_vars


(* ------------------------ vocabulary of the claims --------------------- *)
Names(groups) == [i \in DOMAIN groups |-> groups[i].name]

NoRepeat(seq) == \A i, j \in DOMAIN seq : i # j => seq[i] # seq[j]

\* the member list of a group: proxies, or use
Members(g) ==
    IF "proxies" \in DOMAIN g THEN g.proxies
    ELSE IF "use" \in DOMAIN g THEN g.use ELSE <<>>

UseSet(groups) ==
    UNION {Range(groups[i].use) :
            i \in {k \in DOMAIN groups : "use" \in DOMAIN groups[k]}}

DeclaredMain == rules_config.proxy_groups.main_groups
DeclaredSpecial == rules_config.proxy_groups.special_groups

HasPin(group_name) == group_name \in DOMAIN proxy_defaults

RegionsDone == pc \in {"main", "concat", "done"}
MainDone == pc \in {"concat", "done"}
Done == pc = "done"

(* C1: in the list _generate_all_proxy_groups returns, no two groups have  *)
(* the same name.                                                          *)
C1_UniqueNames == Done => NoRepeat(Names(all_groups))

(* C2: no group of the final output has an entry twice in its member list  *)
(* (proxies, or use).                                                      *)
C2_NoRepeatedMember ==
    Done => \A i \in DOMAIN all_groups : NoRepeat(Members(all_groups[i]))

(* C3: a main group with a default-node pin M has M at index 0 of its      *)
(* member list and at no other index, whatever M names.                    *)
C3_PinFirstAndOnce ==
    MainDone =>
        \A i \in DOMAIN DeclaredMain :
            HasPin(DeclaredMain[i].name) =>
                LET p == main_groups[i].proxies
                    m == proxy_defaults[DeclaredMain[i].name]
                IN  /\ p # <<>>
                    /\ p[1] = m
                    /\ \A k \in 2..Len(p) : p[k] # m

\* a main group pinned to a region group that the region factory emitted and
\* that is among the names the assembler draws its region members from
C3_Witness ==
    /\ Done
    /\ \E i \in DOMAIN DeclaredMain :
          /\ HasPin(DeclaredMain[i].name)
          /\ proxy_defaults[DeclaredMain[i].name] \in Range(Names(region_groups))
          /\ proxy_defaults[DeclaredMain[i].name] \in
                Range(get_region_group_names(providers, regions,
                                             use_merged_region_groups))
          /\ Len(main_groups[i].proxies) > 2

RelayPinned ==
    /\ pc # "generate_config" /\ pc # "relay"
    /\ relay_groups # <<>>
    /\ HasPin(relay_groups[1].name)

(* C4 as stated: with a pin registered for the relay group's name, the     *)
(* emitted relay group has the pin target at index 0, moved there when it  *)
(* was among the aggregated members and prepended when it was not.         *)
C4_RelayPinAlwaysFirst ==
    RelayPinned =>
        relay_groups[1].proxies[1] = proxy_defaults[relay_groups[1].name]

(* C4 as amended: with a pin registered for the relay group's name, a pin  *)
(* target that is among the aggregated members is moved to index 0 and the *)
(* other members keep their relative order; a pin target that is not among *)
(* them is not added, and the member list is the aggregated list.          *)
C4_RelayPinMovedIfPresent ==
    RelayPinned =>
        LET agg == relay_proxies(providers, regions)
            p == relay_groups[1].proxies
            m == proxy_defaults[relay_groups[1].name]
        IN  IF m \in Range(agg)
            THEN /\ p[1] = m
                 /\ Len(p) = Len(agg)
                 /\ SelectSeq(p, LAMBDA x : x # m)
                        = SelectSeq(agg, LAMBDA x : x # m)
            ELSE p = agg

\* the pinned member stood behind another member and has been moved
C4_Witness ==
    /\ RelayPinned
    /\ LET agg == relay_proxies(providers, regions)
           m == proxy_defaults[relay_groups[1].name]
       IN  /\ m \in Range(agg)
           /\ agg[1] # m
           /\ relay_groups[1].proxies[1] = m

(* C5: the providers named in the use fields of the region groups are the  *)
(* same set in per-provider mode and in merged mode, for the same          *)
(* providers, regions and region restriction.                              *)
C5_SameProviderCoverage ==
    RegionsDone =>
        /\ UseSet(region_groups)
             = UseSet(IF use_merged_region_groups
                      THEN generate_auto_groups(providers, regions)
                      ELSE generate_merged_region_groups(providers, regions))
        /\ UseSet(generate_auto_groups(providers, regions))
             = UseSet(generate_merged_region_groups(providers, regions))


\* the pin of a main group, PyNone without one
PinOf(group_name) ==
    IF HasPin(group_name) THEN proxy_defaults[group_name] ELSE PyNone

\* the region factory of the mode the run is in
RegionFactory(provs, regs) ==
    IF use_merged_region_groups
    THEN generate_merged_region_groups(provs, regs)
    ELSE generate_auto_groups(provs, regs)

\* the names of the region groups the factory emits for the regions named
\* in region_names
EmittedNamesFor(region_names) ==
    Range(Names(region_groups))
        \cap Range(Names(RegionFactory(providers,
                SelectSeq(regions, LAMBDA r : r.name \in region_names))))

\* the region members step 2 places in the i-th main group
PlacedRegionMembers(i) ==
    main_region_members(DeclaredMain[i].name, PinOf(DeclaredMain[i].name),
        regions,
        get_region_group_names(providers, regions, use_merged_region_groups))

(* C6: the region members of every main group are names of region groups   *)
(* emitted in the same run: those of the listed regions with an allow-list *)
(* (none for "manual"), all of them in generation order without one (the   *)
(* pinned member, placed first, aside).                                    *)
C6_RegionMembersAreEmitted ==
    MainDone =>
        \A i \in DOMAIN DeclaredMain :
            LET g == DeclaredMain[i].name
                allow == section_items("main_proxy_region_groups")
                placed == PlacedRegionMembers(i)
            IN  /\ Range(placed) \subseteq Range(main_groups[i].proxies)
                /\ IF g \in DOMAIN allow
                   THEN IF Len(Split(allow[g])) = 1
                            /\ Lower(Split(allow[g])[1]) = "manual"
                        THEN placed = <<>>
                        ELSE Range(placed) =
                                EmittedNamesFor(Range(Split(allow[g])))
                                    \ {PinOf(g)}
                   ELSE placed = SelectSeq(Names(region_groups),
                                           LAMBDA n : n # PinOf(g))

\* the regions the relay group may draw from
RelayAllowedRegions ==
    IF config_get("relay_groups", "regions", <<>>) # <<>>
    THEN Range(Split(config_get("relay_groups", "regions", <<>>)))
    ELSE {regions[i].name : i \in DOMAIN regions}

(* C7: the relay factory emits at most one group, never an empty one, and  *)
(* every member is the name of a region group emitted in the same run      *)
(* whose region is in the relay's region allow-list.                       *)
C7_RelayMembersAreEmitted ==
    RegionsDone =>
        /\ Len(relay_groups) <= 1
        /\ relay_groups # <<>> =>
              /\ relay_groups[1].proxies # <<>>
              /\ Range(relay_groups[1].proxies)
                    \subseteq EmittedNamesFor(RelayAllowedRegions)

\* the name the relay group has when it is emitted
RelayName == config_get("relay_groups", "name", RelayNameFallback)

\* index of the first occurrence of x in seq, 0 when absent
IndexOf(seq, x) ==
    IF x \in Range(seq)
    THEN CHOOSE i \in DOMAIN seq : seq[i] = x /\ \A j \in 1..(i - 1) : seq[j] # x
    ELSE 0

(* C8: the relay group's name is a member of a main group only if the      *)
(* relay factory emitted a relay group, and it is a member of every main   *)
(* group the relay is routed to when one was emitted; it stands after the  *)
(* region and custom members, or at index 0 as the pinned default node.    *)
C8_RelayMemberIffEmitted ==
    Done =>
        \A i \in DOMAIN DeclaredMain :
            LET g == DeclaredMain[i].name
                p == main_groups[i].proxies
            IN  /\ RelayName \in Range(p) => relay_groups # <<>>
                /\ (relay_groups # <<>> /\ should_include_relay_group(g))
                        => RelayName \in Range(p)
                /\ RelayName \in Range(p) =>
                      IF PinOf(g) = RelayName
                      THEN p[1] = RelayName
                      ELSE \A n \in Range(PlacedRegionMembers(i))
                                \cup Range(main_custom_members(g, PinOf(g),
                                                               custom_groups)) :
                              IndexOf(p, n) < IndexOf(p, RelayName)

\* the member list the claim describes for the i-th main group
C9_Described(i) ==
    LET g == DeclaredMain[i].name
        pin == PinOf(g)
        manual == Names(manual_select_group)
        head == (IF pin # PyNone THEN <<pin>> ELSE <<>>)
                    \o PlacedRegionMembers(i)
                    \o main_custom_members(g, pin, custom_groups)
        withRelay ==
            IF /\ has_section("relay_groups") /\ should_include_relay_group(g)
               /\ RelayName \notin Range(head)
            THEN Append(head, RelayName) ELSE head
        withManual ==
            IF manual # <<>> /\ manual[1] \notin Range(withRelay)
            THEN Append(withRelay, manual[1]) ELSE withRelay
    IN  IF "DIRECT" \notin Range(withManual)
        THEN Append(withManual, "DIRECT") ELSE withManual

(* C9: the member list of every main group is the pinned default node (if  *)
(* any), the region group names, the selected custom group names, the      *)
(* relay group name, the manual-select group name and "DIRECT", in this    *)
(* order, and "DIRECT" is last unless it is the pin.                       *)
C9_MainMembersInOrder ==
    MainDone =>
        \A i \in DOMAIN DeclaredMain :
            /\ main_groups[i].proxies = C9_Described(i)
            /\ PinOf(DeclaredMain[i].name) # "DIRECT" =>
                  main_groups[i].proxies[Len(main_groups[i].proxies)] = "DIRECT"

(* C10: the final list is the relay group (0 or 1), the main groups in     *)
(* declaration order, the special groups, the region groups, the custom    *)
(* groups and the manual-select group (0 or 1), in this order.             *)
C10_ClassOrder ==
    Done =>
        /\ Len(relay_groups) <= 1
        /\ Len(manual_select_group) <= 1
        /\ Names(all_groups) =
                Names(relay_groups) \o Names(DeclaredMain)
                    \o Names(DeclaredSpecial) \o Names(region_groups)
                    \o Names(custom_groups) \o Names(manual_select_group)

\* a final list that holds groups of all six classes
C10_Witness ==
    /\ Done
    /\ relay_groups # <<>>
    /\ Len(DeclaredMain) >= 2
    /\ DeclaredSpecial # <<>>
    /\ Len(region_groups) >= 2
    /\ custom_groups # <<>>
    /\ manual_select_group # <<>>
    /\ Len(all_groups) = Len(relay_groups) + Len(main_groups)
            + Len(region_groups) + Len(custom_groups) + 1


\* the filter the claim describes for include keywords inc and exclusions exc
C11_Described(inc, exc) ==
    IF exc = <<>>
    THEN Join(inc, "|")
    ELSE "(?!.*(" \o Join(exc, "|") \o ")).*(" \o Join(inc, "|") \o ")"

\* the keywords of the known regions a [custom_groups] entry lists, in the
\* order it lists them
C11_IncludeKeywords(entry) ==
    LET listed == Split(entry.parts[4])
    IN  Flatten([i \in DOMAIN listed |->
            LET hit == SelectSeq(regions, LAMBDA r : r.name = listed[i])
            IN  IF hit = <<>> THEN <<>> ELSE hit[1].keywords])

\* the regions a region group can have been built from, by its name
C11_RegionsOf(g) ==
    {i \in DOMAIN regions :
        IF use_merged_region_groups
        THEN g.name = regions[i].emoji \o regions[i].name
        ELSE \E k \in DOMAIN providers :
                g.name = regions[i].emoji \o regions[i].name \o "_"
                            \o providers[k]}

C11_EntriesOf(g) ==
    {i \in DOMAIN section_items("custom_groups") :
        g.name = config["custom_groups"][i].parts[1]
                    \o config["custom_groups"][i].name}

(* C11: the filter of every region group and custom group is the include   *)
(* keywords joined by "|", wrapped as "(?!.*(" exclusions ")).*(" includes  *)
(* ")" when there are exclusion keywords; a custom group's include         *)
(* keywords are those of its regions in listed order; the three factories  *)
(* build the same filter from the same keywords and exclusions.            *)
C11_FilterAsDescribed ==
    Done =>
        LET exc == get_exclude_keywords
        IN  /\ \A k \in DOMAIN region_groups :
                  /\ C11_RegionsOf(region_groups[k]) # {}
                  /\ \A i \in C11_RegionsOf(region_groups[k]) :
                        region_groups[k].filter
                            = C11_Described(regions[i].keywords, exc)
            /\ \A k \in DOMAIN custom_groups :
                  /\ C11_EntriesOf(custom_groups[k]) # {}
                  /\ \A i \in C11_EntriesOf(custom_groups[k]) :
                        custom_groups[k].filter
                            = C11_Described(
                                C11_IncludeKeywords(config["custom_groups"][i]),
                                exc)
            /\ \A i \in DOMAIN regions :
                  /\ filter_regex_of(regions[i].keywords, exc)
                        = merged_filter_regex(regions[i].keywords, exc)
                  /\ merged_filter_regex(regions[i].keywords, exc)
                        = custom_filter_regex(regions[i].keywords, exc)

\* the filters of the scenario with the exclusion keyword TEST
C11_Witness ==
    /\ Done
    /\ get_exclude_keywords = <<"TEST">>
    /\ \E k \in DOMAIN region_groups :
          region_groups[k].filter = "(?!.*(TEST)).*(HK|Hong Kong)"
    /\ \E k \in DOMAIN custom_groups :
          custom_groups[k].filter = "(?!.*(TEST)).*(JP|HK|Hong Kong)"


\* the emitted group is the manual-select group
C12_IsManualSelect(g) ==
    /\ manual_select_group # <<>>
    /\ g = manual_select_group[1]

(* C12 as stated: in the final output every group that carries use also    *)
(* carries filter and url, and no group carries both use and proxies.       *)
C12_UseHasFilterAndUrl ==
    Done =>
        \A k \in DOMAIN all_groups :
            /\ "use" \in DOMAIN all_groups[k]
                  => {"filter", "url"} \subseteq DOMAIN all_groups[k]
            /\ ~ {"use", "proxies"} \subseteq DOMAIN all_groups[k]

(* C12 amended: in the final output every group that carries use, other     *)
(* than the manual-select group, also carries filter and url; the           *)
(* manual-select group carries name, type and use only; no group carries    *)
(* both use and proxies.                                                    *)
C12_UseHasFilterAndUrlButManual ==
    Done =>
        \A k \in DOMAIN all_groups :
            /\ "use" \in DOMAIN all_groups[k]
                  => \/ {"filter", "url"} \subseteq DOMAIN all_groups[k]
                     \/ C12_IsManualSelect(all_groups[k])
            /\ C12_IsManualSelect(all_groups[k])
                  => DOMAIN all_groups[k] = {"name", "type", "use"}
            /\ ~ {"use", "proxies"} \subseteq DOMAIN all_groups[k]

\* a final list holding the manual-select group, a group with use, filter
\* and url, and a group with proxies
C12_Witness ==
    /\ Done
    /\ \E k \in DOMAIN all_groups : C12_IsManualSelect(all_groups[k])
    /\ \E k \in DOMAIN all_groups :
          {"use", "filter", "url"} \subseteq DOMAIN all_groups[k]
    /\ \E k \in DOMAIN all_groups : "proxies" \in DOMAIN all_groups[k]


\* the group types of the output contract
C13_Types == {"select", "url-test", "fallback", "load-balance"}

(* C13: every group in the final output has a type in {select, url-test,   *)
(* fallback, load-balance}; a custom-group spec naming a type outside this *)
(* set is skipped, so no emitted group carries that spec's name.           *)
C13_KnownTypes ==
    Done =>
        /\ \A k \in DOMAIN all_groups : all_groups[k].type \in C13_Types
        /\ \A i \in DOMAIN section_items("custom_groups") :
              LET entry == config["custom_groups"][i]
              IN  (Len(entry.parts) >= 4 /\ entry.parts[2] \notin C13_Types)
                    => \A k \in DOMAIN custom_groups :
                          custom_groups[k].name # entry.parts[1] \o entry.name


\* a [custom_groups] entry the claim says is dropped: too few fields, a
\* provider filter naming no configured provider, or a region filter that
\* is empty or names no known region with keywords
C14_Dropped(entry) ==
    \/ Len(entry.parts) < 4
    \/ /\ entry.parts[3] # <<>>
       /\ \A p \in Range(Split(entry.parts[3])) : p \notin Range(providers)
    \/ entry.parts[4] = <<>>
    \/ \A n \in Range(Split(entry.parts[4])) :
          ~ \E i \in DOMAIN regions :
                regions[i].name = n /\ regions[i].keywords # <<>>

C14_Remaining ==
    SelectSeq(section_items("custom_groups"), LAMBDA e : ~C14_Dropped(e))

(* C14: a custom-group spec with fewer than 4 fields, with a provider       *)
(* filter naming no configured provider, or with a region filter that is    *)
(* empty or resolves to no known region's keywords emits no group, and the  *)
(* run still completes; the groups emitted for the other specs are those    *)
(* emitted when the dropped specs are not in the input.                     *)
C14_DroppedSpecsLeaveNoTrace ==
    Done =>
        /\ Names(custom_groups)
              = [i \in DOMAIN C14_Remaining |->
                    C14_Remaining[i].parts[1] \o C14_Remaining[i].name]
        /\ custom_groups
              = generate_custom_groups_from(C14_Remaining, providers, regions)

\* a run over a dropped spec of each kind, a dropped spec standing before
\* an emitted one
C14_Witness ==
    /\ Done
    /\ custom_groups # <<>>
    /\ \E i, j \in DOMAIN section_items("custom_groups") :
          /\ i < j
          /\ C14_Dropped(config["custom_groups"][i])
          /\ ~C14_Dropped(config["custom_groups"][j])
          /\ \/ Len(config["custom_groups"][i].parts) < 4
             \/ config["custom_groups"][i].parts[3] # <<>>
             \/ config["custom_groups"][i].parts[4] # <<>>


\* no provider is configured
C15_NoProvider ==
    \/ ~has_section("proxy_providers")
    \/ config["proxy_providers"] = <<>>

(* C15: when no provider is configured, generate_config returns an empty    *)
(* result without any factory having produced a group, nothing is saved     *)
(* and the process exits with a non-zero status; with a provider, what      *)
(* generate_config returns holds a proxy-groups list, the composed one.     *)
C15_NoProviderNoOutput ==
    /\ C15_NoProvider =>
          /\ relay_groups = <<>> /\ custom_groups = <<>>
          /\ manual_select_group = <<>> /\ region_groups = <<>>
          /\ main_groups = <<>> /\ all_groups = <<>>
          /\ pc \in {"generate_config", "failed", "exited"}
          /\ returned # <<>> => DOMAIN returned[1] = {}
          /\ saved = <<>>
          /\ exit_status # <<>> => exit_status[1] # 0
    /\ ~C15_NoProvider =>
          /\ pc # "failed"
          /\ returned # <<>> =>
                /\ "proxy-groups" \in DOMAIN returned[1]
                /\ returned[1]["proxy-groups"] = all_groups
    /\ pc = "exited" => exit_status # <<>>

\* the run without providers has ended: nothing returned, nothing saved,
\* exit status 1
C15_Witness ==
    /\ C15_NoProvider
    /\ pc = "exited"
    /\ returned = <<EmptyMap>>
    /\ saved = <<>>
    /\ exit_status = <<1>>


\* the keys of the public group schema
C16_PublicKeys ==
    {"name", "type", "use", "proxies", "filter", "url", "timeout", "interval",
     "tolerance", "strategy"}

\* the custom group's target-mains list is empty or contains the main group
C16_Targets(custom_group, group_name) ==
    \/ custom_group._target_groups = <<>>
    \/ group_name \in Range(custom_group._target_groups)

(* C16: a custom group's name is a member of main group G exactly when its  *)
(* target-mains list is empty or contains G's name (when it is G's pinned   *)
(* default node it stands at index 0 instead); the custom groups appear in  *)
(* G in spec order; in the final output no group carries _target_groups or  *)
(* any other key outside the public schema.                                 *)
C16_CustomMembersByTarget ==
    Done =>
        /\ \A k \in DOMAIN DeclaredMain :
              LET G == main_groups[k]
                  pinned(c) == HasPin(G.name) /\ proxy_defaults[G.name] = c.name
                  targeted == SelectSeq(custom_groups, LAMBDA c :
                                  C16_Targets(c, G.name) /\ ~pinned(c))
              IN  /\ \A i \in DOMAIN custom_groups :
                        IF pinned(custom_groups[i])
                        THEN G.proxies[1] = custom_groups[i].name
                        ELSE custom_groups[i].name \in Range(G.proxies)
                                <=> C16_Targets(custom_groups[i], G.name)
                  /\ SelectSeq(G.proxies, LAMBDA m :
                        \E i \in DOMAIN custom_groups :
                            /\ custom_groups[i].name = m
                            /\ ~pinned(custom_groups[i]))
                        = Names(targeted)
        /\ \A k \in DOMAIN all_groups :
              DOMAIN all_groups[k] \subseteq C16_PublicKeys


\* the tuning fields of group g are those of its type, a url-test group
\* having the given tolerance and interval
C17_Tuned(g, tolerance, interval) ==
    /\ "timeout" \in DOMAIN g <=> g.type = "fallback"
    /\ "timeout" \in DOMAIN g => g.timeout = 5000
    /\ "tolerance" \in DOMAIN g <=> g.type = "url-test"
    /\ "tolerance" \in DOMAIN g => g.tolerance = tolerance
    /\ "strategy" \in DOMAIN g <=> g.type = "load-balance"
    /\ "strategy" \in DOMAIN g => g.strategy = "consistent-hashing"
    /\ "interval" \in DOMAIN g
          <=> g.type \in {"fallback", "url-test", "load-balance"}
    /\ "interval" \in DOMAIN g
          => g.interval = IF g.type = "url-test" THEN interval ELSE 600

C17_IsRelay(g) == relay_groups # <<>> /\ g = relay_groups[1]

(* C17: tuning fields are emitted only for the corresponding type, with     *)
(* fixed values: region and custom groups get timeout 5000 and interval 600 *)
(* for fallback, tolerance 500 and interval 600 for url-test, strategy      *)
(* consistent-hashing and interval 600 for load-balance, none for select;   *)
(* the relay group gets the same but tolerance 100 and interval 300 for     *)
(* url-test.                                                                *)
C17_TuningByType ==
    Done =>
        /\ \A k \in DOMAIN region_groups : C17_Tuned(region_groups[k], 500, 600)
        /\ \A k \in DOMAIN custom_groups : C17_Tuned(custom_groups[k], 500, 600)
        /\ \A k \in DOMAIN relay_groups : C17_Tuned(relay_groups[k], 100, 300)
        /\ \A k \in DOMAIN all_groups :
              /\ "filter" \in DOMAIN all_groups[k]
                    => C17_Tuned(all_groups[k], 500, 600)
              /\ C17_IsRelay(all_groups[k])
                    => C17_Tuned(all_groups[k], 100, 300)

\* a final list with a url-test relay group, a url-test region group and
\* groups of two more types
C17_Witness ==
    /\ Done
    /\ \E k \in DOMAIN all_groups :
          /\ C17_IsRelay(all_groups[k])
          /\ all_groups[k].type = "url-test"
          /\ all_groups[k].tolerance = 100
          /\ all_groups[k].interval = 300
    /\ \E k \in DOMAIN region_groups :
          /\ region_groups[k].type = "url-test"
          /\ region_groups[k].tolerance = 500
    /\ \E k \in DOMAIN region_groups :
          /\ region_groups[k].type = "load-balance"
          /\ region_groups[k].strategy = "consistent-hashing"
    /\ \E k \in DOMAIN custom_groups :
          /\ custom_groups[k].type = "fallback"
          /\ custom_groups[k].timeout = 5000


====
